---- MODULE Spec2Model ----
(***************************************************************************)
(* EPP pipeline of bocsr (src/src/main.rs): stream -> Parser -> Sketch.put *)
(* and raw-record spill; spilled file -> sort -u -> unique file; unique    *)
(* file -> Sketch.get and grouping -> standard output.                     *)
(*                                                                         *)
(* Strings are sequences of one-character strings, files are byte          *)
(* sequences, and every formatting or splitting step is computed on them.  *)
(***************************************************************************)
EXTENDS Integers, Sequences, FiniteSets, TLC

\* ------------------------------------------------------------------ bounds
\* Longest input stream (number of records the Parser can yield).
MaxRecords == 2
\* Longest input stream of each run when two runs execute concurrently.
MaxConcRecords == 1
\* Largest exponent given to -e when the power of ten is evaluated alone.
MaxExponent == 12
\* Longest uv and longest op when the Sketch key is evaluated alone.
MaxFieldLen == 2

\* ------------------------------------------------------------- characters
SP == " "
NL == "\n"
TAB == "\t"

\* Byte value of a character (the order sort(1) compares lines in, C locale).
Code(ch) ==
  CASE ch = "\t" -> 9
    [] ch = "\n" -> 10
    [] ch = " " -> 32
    [] ch = "," -> 44
    [] ch = "." -> 46
    [] ch = "0" -> 48
    [] ch = "1" -> 49
    [] ch = "2" -> 50
    [] ch = "3" -> 51
    [] ch = "4" -> 52
    [] ch = "5" -> 53
    [] ch = "6" -> 54
    [] ch = "7" -> 55
    [] ch = "8" -> 56
    [] ch = "9" -> 57
    [] ch = ":" -> 58
    [] ch = "=" -> 61
    [] ch = "A" -> 65
    [] ch = "B" -> 66
    [] ch = "C" -> 67
    [] ch = "x" -> 120
    [] ch = "y" -> 121

\* char::is_whitespace, as str::split_whitespace uses it.
IsWhitespace(ch) == ch \in {" ", "\n", "\t"}

DigitChar(d) == <<"0", "1", "2", "3", "4", "5", "6", "7", "8", "9">>[d + 1]

\* Display of an unsigned integer: its decimal digits.
RECURSIVE Digits(_)
Digits(n) == IF n < 10 THEN <<DigitChar(n)>>
             ELSE Digits(n \div 10) \o <<DigitChar(n % 10)>>

RECURSIVE Zeros(_)
Zeros(n) == IF n = 0 THEN <<>> ELSE <<"0">> \o Zeros(n - 1)

\* ---------------------------------------------------------------- strings
\* Lexicographic byte order on strings (memcmp, then length).
RECURSIVE StrLess(_, _)
StrLess(a, b) ==
  IF b = <<>> THEN FALSE
  ELSE IF a = <<>> THEN TRUE
  ELSE IF Code(Head(a)) # Code(Head(b)) THEN Code(Head(a)) < Code(Head(b))
  ELSE StrLess(Tail(a), Tail(b))

\* The lines of a file: maximal runs of bytes ended by a newline (newline
\* dropped); an unterminated non-empty remainder is a line too.
RECURSIVE SplitLines(_, _)
SplitLines(data, cur) ==
  IF data = <<>> THEN (IF cur = <<>> THEN <<>> ELSE <<cur>>)
  ELSE IF Head(data) = NL THEN <<cur>> \o SplitLines(Tail(data), <<>>)
  ELSE SplitLines(Tail(data), Append(cur, Head(data)))

Lines(data) == SplitLines(data, <<>>)

RECURSIVE JoinLines(_)
JoinLines(ls) == IF ls = <<>> THEN <<>>
                 ELSE Head(ls) \o <<NL>> \o JoinLines(Tail(ls))

\* str::split_whitespace: the maximal runs of non-whitespace characters.
RECURSIVE SplitWs(_, _)
SplitWs(s, cur) ==
  IF s = <<>> THEN (IF cur = <<>> THEN <<>> ELSE <<cur>>)
  ELSE IF IsWhitespace(Head(s))
       THEN (IF cur = <<>> THEN <<>> ELSE <<cur>>) \o SplitWs(Tail(s), <<>>)
  ELSE SplitWs(Tail(s), Append(cur, Head(s)))

split_whitespace(s) == SplitWs(s, <<>>)

Range(s) == {s[i] : i \in 1..Len(s)}

\* A set of strings as the sequence in increasing byte order.
RECURSIVE SortSet(_)
SortSet(S) ==
  IF S = {} THEN <<>>
  ELSE LET m == CHOOSE x \in S : \A y \in S \ {x} : StrLess(x, y)
       IN <<m>> \o SortSet(S \ {m})


\* ------------------------------------------------------------------ Sketch
\* Euler's number as the rational EulerNum / EulerDen.
EulerNum == 271828
EulerDen == 100000

\* depth = ceil(ln(1 / (1 - confidence_fraction))) for CONFIDENCE = 99.0:
\* ceil(ln 100) = ceil(4.605...).
Depth == 5

\* width = ceil(e / epsilon), epsilon = 1 / eDen.
Width(eDen) == (EulerNum * eDen + EulerDen - 1) \div EulerDen

\* The row-th hash function: a polynomial hash of the key's bytes whose
\* multiplier depends on the row, reduced to a column index.
RECURSIVE HashFold(_, _, _, _)
HashFold(key, mult, acc, width) ==
  IF key = <<>> THEN acc
  ELSE HashFold(Tail(key), mult, (acc * mult + Code(Head(key))) % width, width)

Hash(row, key, width) == HashFold(key, 30 + row, row, width)

\* CountMinSketch::new(e, CONFIDENCE): a depth x width matrix of zeros.
CmsNew(eDen) ==
  [width |-> Width(eDen),
   table |-> [row \in 1..Depth |-> [col \in 0..(Width(eDen) - 1) |-> 0]]]

\* put(key): one counter per row goes up by one.
CmsPut(sk, key) ==
  [sk EXCEPT !.table =
     [row \in 1..Depth |->
        [sk.table[row] EXCEPT ![Hash(row, key, sk.width)] = @ + 1]]]

SetMin(S) == CHOOSE x \in S : \A y \in S : x <= y

\* get(key): the minimum over the rows of the key's counters; "absent" when
\* every one of them is still zero.
CmsGet(sk, key) ==
  LET vals == {sk.table[row][Hash(row, key, sk.width)] : row \in 1..Depth}
  IN IF vals = {0} THEN [present |-> FALSE, pred |-> 0]
     ELSE [present |-> TRUE, pred |-> SetMin(vals)]


\* ------------------------------------------------------------- formatting
\* format!("{} {} {}\n", cms_info.uv, cms_info.c, cms_info.op)
BufferLine(rec) == rec.uv \o <<SP>> \o Digits(rec.c) \o <<SP>> \o rec.op \o <<NL>>

\* PutKey with a slip: the separator is left out.
PutKeyNoColon(uv, op) == uv \o op

\* format!("{}:{}", cms_info.uv, cms_info.op), the key of Sketch.put
PutKey(uv, op) == uv \o <<":">> \o op

\* format!("{}:{}", uv, op), the key of Sketch.get
GetKey(uv, op) == uv \o <<":">> \o op

\* format!("{} {}", uv, c), the header of a group
Header(uv, c) == uv \o <<SP>> \o c

\* format!("\t{}:{} {}", k, op, pred), one annotation
Annotation(k, op, pred) ==
  <<TAB>> \o Digits(k) \o <<":">> \o op \o <<SP>> \o Digits(pred)

RECURSIVE Pow10(_)
Pow10(n) == IF n = 0 THEN 1 ELSE 10 * Pow10(n - 1)

\* u32::pow(10, exponent): e = 1.0 / EDen(exponent)
EDen(exponent) == Pow10(exponent)

\* Display of the f64 1.0 / 10^exponent: "1", "0.1", "0.01", ...
FormatE(exponent) ==
  IF exponent = 0 THEN <<"1">>
  ELSE <<"0", ".">> \o Zeros(exponent - 1) \o <<"1">>

\* (e * count as f64).floor() as u64
RangeOf(exponent, n) == n \div EDen(exponent)

\* The fixed parts of the summary line.
T_COVERED == <<"C", "o", "v", "e", "r", "e", "d", " ">>
T_LINES == <<" ", "l", "i", "n", "e", "s", " ", "o", "f", " ", "i", "n", "p", "u", "t", " ", "w", "i", "t", "h", " ", "k", "=">>
T_E == <<",", " ", "e", "=">>
T_RANGE == <<" ", "a", "n", "d", " ", "a", " ", "r", "a", "n", "g", "e", " ", "o", "f", " ">>

\* "Covered {} lines of input with k={}, e={} and a range of {}" and the
\* newline writeln! adds.
SummaryLine(n, kv, exponent, rng) ==
  T_COVERED \o Digits(n)
  \o T_LINES \o Digits(kv)
  \o T_E \o FormatE(exponent)
  \o T_RANGE \o Digits(rng) \o <<NL>>

\* -------------------------------------------------------------------- files
\* A file: whether it exists, and its bytes.
NoFile == [exists |-> FALSE, data |-> <<>>]
FileOf(bytes) == [exists |-> TRUE, data |-> bytes]

\* write_all at offset pos of a file opened without truncation and without
\* append: the bytes replace what was there and extend the file if needed.
WriteAt(data, pos, bytes) ==
  SubSeq(data, 1, pos) \o bytes \o SubSeq(data, pos + Len(bytes) + 1, Len(data))

\* OpenOptions::new().write(true).create(true).open(path): creates the file
\* when it is missing and keeps its content when it exists.
OpenCreate(f) == IF f.exists THEN f ELSE FileOf(<<>>)

\* BufRead::read_line from offset pos: the bytes up to and including the next
\* newline, or up to the end of the file.
RECURSIVE TakeLine(_)
TakeLine(rest) ==
  IF rest = <<>> THEN <<>>
  ELSE IF Head(rest) = NL THEN <<NL>>
  ELSE <<Head(rest)>> \o TakeLine(Tail(rest))

read_line(data, pos) == TakeLine(SubSeq(data, pos + 1, Len(data)))

\* SortUnique with a slip: the key is the first field alone (-k 1,1), so of
\* the lines with one uv only the least is kept.
SortUniqueByUv(data) ==
  LET ls == Range(Lines(data))
      first(l) == IF split_whitespace(l) = <<>> THEN <<>>
                  ELSE split_whitespace(l)[1]
  IN JoinLines(SortSet({l \in ls :
                          \A o \in ls : (first(o) = first(l) /\ o # l)
                                          => StrLess(l, o)}))

\* sort -u -k 1 -o unique buffer: the key runs from the first field to the
\* end of the line, so the distinct lines come out in increasing order.
SortUnique(data) == JoinLines(SortSet(Range(Lines(data))))

\* The process identifier of a run (std::process::id()): two processes alive
\* at the same time never have the same one.
ProcessId(r) == r

TempDir == "tmp"

\* quads_path with a slip: the process identifier is left out of the name.
quads_path_no_pid(r) == <<TempDir, "epp-quads", 0>>

\* format!("{}/epp-quads-{}.txt", temp_dir, pid)
quads_path(r) == <<TempDir, "epp-quads", ProcessId(r)>>
\* format!("{}/epp-unique-quads-{}.txt", temp_dir, pid)
unique_quads_path(r) == <<TempDir, "epp-unique-quads", ProcessId(r)>>
\* format!("{}/epp_stats.txt", out)
stats_path(outdir) == <<outdir, "epp_stats", 0>>


\* ------------------------------------------------------------------- inputs
Runs == {1, 2}

\* The records the Parser can yield.
RecordPool ==
  { [uv |-> <<"A">>, c |-> 2, op |-> <<"x">>],
    [uv |-> <<"A">>, c |-> 10, op |-> <<"x">>],
    [uv |-> <<"A">>, c |-> 2, op |-> <<"y">>],
    [uv |-> <<"B">>, c |-> 5, op |-> <<"y">>] }

\* The records of the streams of two concurrent runs.
ConcPool ==
  { [uv |-> <<"A">>, c |-> 2, op |-> <<"x">>],
    [uv |-> <<"B">>, c |-> 5, op |-> <<"y">>] }

Streams(pool, n) == UNION {[1..m -> pool] : m \in 0..n}

\* Values of -k, -e and -o.
KValues == {3}
Exponents == {0, 1}
OutDirs == {"out1", "out2"}

AllPaths ==
  {quads_path(r) : r \in Runs} \cup {unique_quads_path(r) : r \in Runs}
  \cup {stats_path(d) : d \in OutDirs}

\* A file some other program left under the Unique artifact's name: its
\* second line has four fields.
ForeignUnique ==
  <<"A", " ", "2", " ", "x", "\n", "B", " ", "5", " ", "y", " ", "x", "\n">>

\* What an earlier run that had the same process identifier and aborted
\* left behind: its Buffer artifact and its Unique artifact.
StaleQuads ==
  BufferLine([uv |-> <<"A">>, c |-> 10, op |-> <<"y">>])
  \o BufferLine([uv |-> <<"B">>, c |-> 10, op |-> <<"y">>])
StaleUnique == SortUnique(StaleQuads)
\* The summary an earlier, longer run wrote to the same -o directory.
StaleSummary == SummaryLine(120, 3, 1, RangeOf(1, 120))

\* -------------------------------------------------------------------- state
VARIABLES
  fs,           \* the file system: path -> file
  pc,           \* each run's position in main
  cli,          \* (k, exponent, out) as init_cli returned them
  stdin,        \* what the Parser has still to yield: records, then end of
                \* stream or a line it cannot parse
  cms,          \* the Sketch
  count,        \* records pulled so far
  buffer_file,  \* write offset of the Buffer artifact's handle
  seen,         \* read offset of the Unique artifact's reader
  line,         \* the line buffer of ReportEmit
  output,       \* the group line being built
  cur_uv,       \* the uv of the group being built
  stdout,       \* the lines printed so far
  err,          \* why the run aborted
  pulled,       \* history: the records pulled from the Parser, in order
  queried,      \* history: the Sketch.get calls and their results
  sort_status,  \* history: how the Deduplicator ended
  read_failed,  \* history: a read of the Unique artifact failed
  unique_seen,  \* history: the Unique artifact as ReportEmit opened it
  touched,      \* history: path -> the runs that read it, that wrote it
  pow,          \* the evaluation of u32::pow(10, exponent) taken alone
  key_eval      \* the evaluation of the Sketch key of two records taken alone

vars == <<fs, pc, cli, stdin, cms, count, buffer_file, seen, line, output,
          cur_uv, stdout, err, pulled, queried, sort_status, read_failed,
          unique_seen, touched, pow, key_eval>>

\* The variables of the evaluations taken alone; no step of main changes them.
purevars == <<pow, key_eval>>

PowIdle == [status |-> "idle"]
KeyIdle == [status |-> "idle"]

\* Parser::parse_cms: the next record, end of stream, or a parse error.
parse_cms(in) ==
  IF in.recs # <<>> THEN [kind |-> "some", rec |-> Head(in.recs)]
  ELSE IF in.bad THEN [kind |-> "err"]
  ELSE [kind |-> "none"]

Reads(t, path, r) == [t EXCEPT ![path].readers = @ \cup {r}]
Writes(t, path, r) == [t EXCEPT ![path].writers = @ \cup {r}]

\* A run that is never started.
OffRun == [k |-> 3, exponent |-> 0, out |-> "out2"]

InitLocals ==
  /\ count = [r \in Runs |-> 0]
  /\ buffer_file = [r \in Runs |-> 0]
  /\ seen = [r \in Runs |-> 0]
  /\ line = [r \in Runs |-> <<>>]
  /\ output = [r \in Runs |-> <<>>]
  /\ cur_uv = [r \in Runs |-> <<>>]
  /\ stdout = [r \in Runs |-> <<>>]
  /\ err = [r \in Runs |-> "none"]
  /\ pulled = [r \in Runs |-> <<>>]
  /\ queried = [r \in Runs |-> <<>>]
  /\ sort_status = [r \in Runs |-> "not_run"]
  /\ read_failed = [r \in Runs |-> FALSE]
  /\ unique_seen = [r \in Runs |-> <<>>]
  /\ touched = [p \in AllPaths |-> [readers |-> {}, writers |-> {}]]

InitPure ==
  /\ pow = PowIdle
  /\ key_eval = KeyIdle

\* One run; the files it will use may be left over from earlier runs.
Init ==
  /\ \E s \in Streams(RecordPool, MaxRecords), bad \in BOOLEAN, ex \in Exponents,
        kv \in KValues,
        q \in {NoFile, FileOf(StaleQuads)},
        u \in {NoFile, FileOf(StaleUnique), FileOf(ForeignUnique)},
        st \in {NoFile, FileOf(StaleSummary)} :
       /\ pc = [r \in Runs |-> IF r = 1 THEN "open_buffer" ELSE "off"]
       /\ cli = [r \in Runs |->
                   IF r = 1 THEN [k |-> kv, exponent |-> ex, out |-> "out1"]
                   ELSE OffRun]
       /\ stdin = [r \in Runs |->
                     IF r = 1 THEN [recs |-> s, bad |-> bad]
                     ELSE [recs |-> <<>>, bad |-> FALSE]]
       /\ cms = [r \in Runs |-> CmsNew(EDen(IF r = 1 THEN ex ELSE 0))]
       /\ fs = [p \in AllPaths |->
                  IF p = quads_path(1) THEN q
                  ELSE IF p = unique_quads_path(1) THEN u
                  ELSE IF p = stats_path("out1") THEN st
                  ELSE NoFile]
  /\ InitLocals
  /\ InitPure

\* Two runs at once, each with its own process identifier; the second is
\* given the same -o directory as the first, or another one.
InitConc ==
  /\ \E s1 \in Streams(ConcPool, MaxConcRecords),
        s2 \in Streams(ConcPool, MaxConcRecords),
        d2 \in OutDirs :
       /\ pc = [r \in Runs |-> "open_buffer"]
       /\ cli = [r \in Runs |->
                   [k |-> 3, exponent |-> 0,
                    out |-> IF r = 1 THEN "out1" ELSE d2]]
       /\ stdin = [r \in Runs |->
                     [recs |-> IF r = 1 THEN s1 ELSE s2, bad |-> FALSE]]
       /\ cms = [r \in Runs |-> CmsNew(EDen(0))]
       /\ fs = [p \in AllPaths |-> NoFile]
  /\ InitLocals
  /\ InitPure


\* ------------------------------------------------------------------ actions
\* An error returned from main with `?`: the run ends there.
Abort(r, why) ==
  /\ pc' = [pc EXCEPT ![r] = "aborted"]
  /\ err' = [err EXCEPT ![r] = why]

Goto(r, where) ==
  /\ pc' = [pc EXCEPT ![r] = where]
  /\ UNCHANGED err

\* Lines 44-50: open the Buffer artifact for writing, creating it if missing.
OpenBuffer(r) ==
  /\ pc[r] = "open_buffer"
  /\ \E ok \in BOOLEAN :
       IF ok
       THEN /\ fs' = [fs EXCEPT ![quads_path(r)] = OpenCreate(@)]
            /\ touched' = Writes(touched, quads_path(r), r)
            /\ Goto(r, "ingest")
       ELSE /\ Abort(r, "io")
            /\ UNCHANGED <<fs, touched>>
  /\ UNCHANGED purevars
  /\ UNCHANGED <<cli, stdin, cms, count, buffer_file, seen, line, output,
                 cur_uv, stdout, pulled, queried, sort_status, read_failed,
                 unique_seen>>

\* SketchPut with a slip: a key the Sketch already holds is not counted again.
SketchPutOnce(sk, rec) ==
  IF CmsGet(sk, PutKey(rec.uv, rec.op)).present THEN sk
  ELSE CmsPut(sk, PutKey(rec.uv, rec.op))

\* Lines 61-63: the record's key goes into the Sketch.
SketchPut(sk, rec) == CmsPut(sk, PutKey(rec.uv, rec.op))

\* Lines 55-64: one turn of the ingest loop. A record is counted, written to
\* the Buffer artifact and put in the Sketch; end of stream leaves the loop;
\* a parse error or a failed write ends the run.
ParseCms(r) ==
  /\ pc[r] = "ingest"
  /\ \E ok \in BOOLEAN :
       LET res == parse_cms(stdin[r]) IN
       IF res.kind = "err"
       THEN /\ Abort(r, "parse")
            /\ UNCHANGED <<fs, stdin, cms, count, buffer_file, pulled, touched>>
       ELSE IF res.kind = "none"
       THEN /\ Goto(r, "summary")
            /\ UNCHANGED <<fs, stdin, cms, count, buffer_file, pulled, touched>>
       ELSE LET bytes == BufferLine(res.rec) IN
            /\ stdin' = [stdin EXCEPT ![r].recs = Tail(@)]
            /\ count' = [count EXCEPT ![r] = @ + 1]
            /\ pulled' = [pulled EXCEPT ![r] = Append(@, res.rec)]
            /\ IF ok
               THEN /\ fs' = [fs EXCEPT ![quads_path(r)].data =
                                WriteAt(@, buffer_file[r], bytes)]
                    /\ buffer_file' = [buffer_file EXCEPT ![r] = @ + Len(bytes)]
                    /\ touched' = Writes(touched, quads_path(r), r)
                    /\ cms' = [cms EXCEPT ![r] = SketchPut(@, res.rec)]
                    /\ Goto(r, "ingest")
               ELSE /\ Abort(r, "io")
                    /\ UNCHANGED <<fs, buffer_file, touched, cms>>
  /\ UNCHANGED purevars
  /\ UNCHANGED <<cli, seen, line, output, cur_uv, stdout, queried,
                 sort_status, read_failed, unique_seen>>

\* WriteSummary with a slip: the Deduplicator is skipped and the run goes on
\* to open the Unique artifact.
WriteSummarySkipSort(r) ==
  /\ pc[r] = "summary"
  /\ \E ok \in BOOLEAN :
       LET path == stats_path(cli[r].out)
           range == RangeOf(cli[r].exponent, count[r])
           text == SummaryLine(count[r], cli[r].k, cli[r].exponent, range)
       IN IF ok
          THEN /\ fs' = [fs EXCEPT ![path] =
                           FileOf(WriteAt(OpenCreate(@).data, 0, text))]
               /\ touched' = Writes(touched, path, r)
               /\ Goto(r, "open_seen")
          ELSE /\ Abort(r, "io")
               /\ UNCHANGED <<fs, touched>>
  /\ UNCHANGED purevars
  /\ UNCHANGED <<cli, stdin, cms, count, buffer_file, seen, line, output,
                 cur_uv, stdout, pulled, queried, sort_status, read_failed,
                 unique_seen>>

\* Lines 66-77: compute the range, open the run summary (created if missing,
\* its content kept if not) and write the summary line at its start.
WriteSummary(r) ==
  /\ pc[r] = "summary"
  /\ \E ok \in BOOLEAN :
       LET path == stats_path(cli[r].out)
           range == RangeOf(cli[r].exponent, count[r])
           text == SummaryLine(count[r], cli[r].k, cli[r].exponent, range)
       IN IF ok
          THEN /\ fs' = [fs EXCEPT ![path] =
                           FileOf(WriteAt(OpenCreate(@).data, 0, text))]
               /\ touched' = Writes(touched, path, r)
               /\ Goto(r, "sort")
          ELSE /\ Abort(r, "io")
               /\ UNCHANGED <<fs, touched>>
  /\ UNCHANGED purevars
  /\ UNCHANGED <<cli, stdin, cms, count, buffer_file, seen, line, output,
                 cur_uv, stdout, pulled, queried, sort_status, read_failed,
                 unique_seen>>

\* Lines 79-82: run sort and wait for it. Only a failure to start the
\* command is an error of output(); the exit status is not looked at.
\* sort that exits with a non-zero status has not written its output file.
Sort(r) ==
  /\ pc[r] = "sort"
  /\ \E how \in {"exit_zero", "exit_nonzero", "spawn_error"} :
       /\ sort_status' = [sort_status EXCEPT ![r] = how]
       /\ IF how = "spawn_error"
          THEN /\ Abort(r, "io")
               /\ UNCHANGED <<fs, touched>>
          ELSE IF how = "exit_zero" /\ fs[quads_path(r)].exists
          THEN /\ fs' = [fs EXCEPT ![unique_quads_path(r)] =
                           FileOf(SortUnique(fs[quads_path(r)].data))]
               /\ touched' = Writes(Reads(touched, quads_path(r), r),
                                    unique_quads_path(r), r)
               /\ Goto(r, "open_seen")
          ELSE /\ Goto(r, "open_seen")
               /\ UNCHANGED <<fs, touched>>
  /\ UNCHANGED purevars
  /\ UNCHANGED <<cli, stdin, cms, count, buffer_file, seen, line, output,
                 cur_uv, stdout, pulled, queried, read_failed, unique_seen>>

\* OpenSeen with a slip: the Unique artifact is opened the way the Buffer
\* artifact is (write, create) and truncated.
OpenSeenTruncating(r) ==
  /\ pc[r] = "open_seen"
  /\ \E ok \in BOOLEAN :
       IF ok
       THEN /\ seen' = [seen EXCEPT ![r] = 0]
            /\ fs' = [fs EXCEPT ![unique_quads_path(r)] = FileOf(<<>>)]
            /\ unique_seen' = [unique_seen EXCEPT ![r] = <<>>]
            /\ touched' = Writes(touched, unique_quads_path(r), r)
            /\ Goto(r, "scan")
       ELSE /\ Abort(r, "io")
            /\ UNCHANGED <<fs, seen, unique_seen, touched>>
  /\ UNCHANGED purevars
  /\ UNCHANGED <<cli, stdin, cms, count, buffer_file, line, output,
                 cur_uv, stdout, pulled, queried, sort_status, read_failed>>

\* Lines 84-90: open the Unique artifact for reading; the buffers are empty.
OpenSeen(r) ==
  /\ pc[r] = "open_seen"
  /\ \E ok \in BOOLEAN :
       IF ok /\ fs[unique_quads_path(r)].exists
       THEN /\ seen' = [seen EXCEPT ![r] = 0]
            /\ unique_seen' = [unique_seen EXCEPT ![r] =
                                 fs[unique_quads_path(r)].data]
            /\ touched' = Reads(touched, unique_quads_path(r), r)
            /\ Goto(r, "scan")
       ELSE /\ Abort(r, "io")
            /\ UNCHANGED <<seen, unique_seen, touched>>
  /\ UNCHANGED purevars
  /\ UNCHANGED <<fs, cli, stdin, cms, count, buffer_file, line, output,
                 cur_uv, stdout, pulled, queried, sort_status, read_failed>>

\* MissingFields with a slip: the group being built is printed before the
\* error is returned.
MissingFieldsFlush(r) ==
  /\ Abort(r, "missing_fields")
  /\ stdout' = [stdout EXCEPT ![r] = Append(@, output[r])]
  /\ UNCHANGED output

\* Lines 99-102: collect_tuple yields no (uv, c, op), so main returns the
\* error "Missing fields" at once; the group being built is dropped.
MissingFields(r) ==
  /\ Abort(r, "missing_fields")
  /\ UNCHANGED <<output, stdout>>

\* NewGroup with a slip: every line starts a group.
NewGroupAlways(cur, uv) == TRUE

\* Line 105: uv != cur_uv, the test that starts a new group.
NewGroup(cur, uv) == uv # cur

\* Lines 92-120: one turn of the scan loop. The loop ends when read_line
\* returns an error or zero bytes. Otherwise the line is split into exactly
\* three fields (or the run ends), a change of uv prints the group built so
\* far and starts a new one, and the Sketch's estimate is appended when
\* get returns one.
ReadLine(r) ==
  /\ pc[r] = "scan"
  /\ \E ok \in BOOLEAN :
       LET bytes == read_line(fs[unique_quads_path(r)].data, seen[r])
           text == line[r] \o bytes
           fields == split_whitespace(text)
       IN IF ~ok
          THEN /\ read_failed' = [read_failed EXCEPT ![r] = TRUE]
               /\ Goto(r, "print")
               /\ UNCHANGED <<seen, line, output, cur_uv, stdout, queried,
                              touched>>
          ELSE IF Len(bytes) = 0
          THEN /\ Goto(r, "print")
               /\ touched' = Reads(touched, unique_quads_path(r), r)
               /\ UNCHANGED <<seen, line, output, cur_uv, stdout, queried,
                              read_failed>>
          ELSE IF Len(fields) # 3
          THEN /\ MissingFields(r)
               /\ seen' = [seen EXCEPT ![r] = @ + Len(bytes)]
               /\ line' = [line EXCEPT ![r] = text]
               /\ touched' = Reads(touched, unique_quads_path(r), r)
               /\ UNCHANGED <<cur_uv, queried, read_failed>>
          ELSE LET uv == fields[1]
                   c == fields[2]
                   op == fields[3]
                   fresh == NewGroup(cur_uv[r], uv)
                   started == IF fresh THEN Header(uv, c) ELSE output[r]
                   got == CmsGet(cms[r], GetKey(uv, op))
               IN /\ seen' = [seen EXCEPT ![r] = @ + Len(bytes)]
                  /\ stdout' = [stdout EXCEPT ![r] =
                                  IF fresh /\ cur_uv[r] # <<>>
                                  THEN Append(@, output[r]) ELSE @]
                  /\ cur_uv' = [cur_uv EXCEPT ![r] = uv]
                  /\ output' = [output EXCEPT ![r] =
                                  IF got.present
                                  THEN started \o Annotation(cli[r].k, op, got.pred)
                                  ELSE started]
                  /\ queried' = [queried EXCEPT ![r] =
                                   Append(@, [uv |-> uv, op |-> op,
                                              present |-> got.present,
                                              pred |-> got.pred])]
                  /\ line' = [line EXCEPT ![r] = <<>>]
                  /\ touched' = Reads(touched, unique_quads_path(r), r)
                  /\ Goto(r, "scan")
                  /\ UNCHANGED read_failed
  /\ UNCHANGED purevars
  /\ UNCHANGED <<fs, cli, stdin, cms, count, buffer_file, pulled,
                 sort_status, unique_seen>>

\* Line 121: print the group line as it stands when the loop has ended.
PrintLast(r) ==
  /\ pc[r] = "print"
  /\ stdout' = [stdout EXCEPT ![r] = Append(@, output[r])]
  /\ Goto(r, "remove_unique")
  /\ UNCHANGED purevars
  /\ UNCHANGED <<fs, cli, stdin, cms, count, buffer_file, seen, line, output,
                 cur_uv, pulled, queried, sort_status, read_failed,
                 unique_seen, touched>>

\* RemoveUnique with a slip: when the Unique artifact cannot be deleted the
\* Buffer artifact is deleted before the error is returned.
RemoveUniqueThenCleanUp(r) ==
  /\ pc[r] = "remove_unique"
  /\ \E ok \in BOOLEAN :
       IF ok /\ fs[unique_quads_path(r)].exists
       THEN /\ fs' = [fs EXCEPT ![unique_quads_path(r)] = NoFile]
            /\ touched' = Writes(touched, unique_quads_path(r), r)
            /\ Goto(r, "remove_quads")
       ELSE /\ fs' = [fs EXCEPT ![quads_path(r)] = NoFile]
            /\ touched' = Writes(touched, quads_path(r), r)
            /\ Abort(r, "io")
  /\ UNCHANGED purevars
  /\ UNCHANGED <<cli, stdin, cms, count, buffer_file, seen, line, output,
                 cur_uv, stdout, pulled, queried, sort_status, read_failed,
                 unique_seen>>

\* Line 124: delete the Unique artifact, or end the run if that fails.
RemoveUnique(r) ==
  /\ pc[r] = "remove_unique"
  /\ \E ok \in BOOLEAN :
       IF ok /\ fs[unique_quads_path(r)].exists
       THEN /\ fs' = [fs EXCEPT ![unique_quads_path(r)] = NoFile]
            /\ touched' = Writes(touched, unique_quads_path(r), r)
            /\ Goto(r, "remove_quads")
       ELSE /\ Abort(r, "io")
            /\ UNCHANGED <<fs, touched>>
  /\ UNCHANGED purevars
  /\ UNCHANGED <<cli, stdin, cms, count, buffer_file, seen, line, output,
                 cur_uv, stdout, pulled, queried, sort_status, read_failed,
                 unique_seen>>

\* RemoveQuads with a slip: the result of remove_file is dropped, so the run
\* returns Ok whether or not the Buffer artifact was deleted.
RemoveQuadsUnchecked(r) ==
  /\ pc[r] = "remove_quads"
  /\ \E ok \in BOOLEAN :
       IF ok /\ fs[quads_path(r)].exists
       THEN /\ fs' = [fs EXCEPT ![quads_path(r)] = NoFile]
            /\ touched' = Writes(touched, quads_path(r), r)
            /\ Goto(r, "done")
       ELSE /\ Goto(r, "done")
            /\ UNCHANGED <<fs, touched>>
  /\ UNCHANGED purevars
  /\ UNCHANGED <<cli, stdin, cms, count, buffer_file, seen, line, output,
                 cur_uv, stdout, pulled, queried, sort_status, read_failed,
                 unique_seen>>

\* Lines 125-127: delete the Buffer artifact, or end the run if that fails;
\* then return Ok.
RemoveQuads(r) ==
  /\ pc[r] = "remove_quads"
  /\ \E ok \in BOOLEAN :
       IF ok /\ fs[quads_path(r)].exists
       THEN /\ fs' = [fs EXCEPT ![quads_path(r)] = NoFile]
            /\ touched' = Writes(touched, quads_path(r), r)
            /\ Goto(r, "done")
       ELSE /\ Abort(r, "io")
            /\ UNCHANGED <<fs, touched>>
  /\ UNCHANGED purevars
  /\ UNCHANGED <<cli, stdin, cms, count, buffer_file, seen, line, output,
                 cur_uv, stdout, pulled, queried, sort_status, read_failed,
                 unique_seen>>

Next ==
  \E r \in Runs :
    \/ OpenBuffer(r)
    \/ ParseCms(r)
    \/ WriteSummary(r)
    \/ Sort(r)
    \/ OpenSeen(r)
    \/ ReadLine(r)
    \/ PrintLast(r)
    \/ RemoveUnique(r)
    \/ RemoveQuads(r)

Spec == Init /\ [][Next]_vars

SpecConc == InitConc /\ [][Next]_vars

\* No run of main is started: the state of main while a function is
\* evaluated alone.
InitNoRun ==
  /\ pc = [r \in Runs |-> "off"]
  /\ cli = [r \in Runs |-> OffRun]
  /\ stdin = [r \in Runs |-> [recs |-> <<>>, bad |-> FALSE]]
  /\ cms = [r \in Runs |-> CmsNew(EDen(0))]
  /\ fs = [p \in AllPaths |-> NoFile]
  /\ InitLocals

mainvars ==
  <<fs, pc, cli, stdin, cms, count, buffer_file, seen, line, output, cur_uv,
    stdout, err, pulled, queried, sort_status, read_failed, unique_seen,
    touched>>

\* ------------------------------------------------- u32::pow(10, exponent)
\* A u32 is held as two 16-bit halves, hi * Half + lo.
Half == 65536

U32One == [hi |-> 0, lo |-> 1]

\* The u32 product v * 10: the low 32 bits, and whether the product needed
\* more than 32 bits.
U32Mul10(v) ==
  LET l == v.lo * 10
      h == v.hi * 10 + (l \div Half)
  IN [val |-> [hi |-> h % Half, lo |-> l % Half], overflow |-> h >= Half]

\* The natural number n * 10 for n held as four 16-bit digits, lowest first
\* (no digit is lost below 2^64).
BigMul10(n) ==
  LET d1 == n[1] * 10
      d2 == n[2] * 10 + (d1 \div Half)
      d3 == n[3] * 10 + (d2 \div Half)
      d4 == n[4] * 10 + (d3 \div Half)
  IN <<d1 % Half, d2 % Half, d3 % Half, d4 % Half>>

\* The natural number a u32 stands for, as four 16-bit digits.
BigOfU32(v) == <<v.lo, v.hi, 0, 0>>

\* A build with overflow checks (debug) panics when a product overflows; a
\* build without them (release) keeps the low 32 bits.
Builds == {"debug", "release"}

InitPow ==
  /\ InitNoRun
  /\ key_eval = KeyIdle
  /\ \E ex \in 0..MaxExponent, b \in Builds :
       pow = [status |-> "run", build |-> b, exponent |-> ex, i |-> 0,
              acc |-> U32One, exact |-> <<1, 0, 0, 0>>]

\* Line 38, u32::pow(10, exponent): one more factor of ten.
PowMul ==
  /\ pow.status = "run"
  /\ pow.i < pow.exponent
  /\ LET m == U32Mul10(pow.acc) IN
       pow' = IF m.overflow /\ pow.build = "debug"
              THEN [pow EXCEPT !.status = "panic"]
              ELSE [pow EXCEPT !.acc = m.val, !.i = @ + 1,
                               !.exact = BigMul10(@)]
  /\ UNCHANGED <<mainvars, key_eval>>

\* Line 38: the power is returned and becomes the divisor of e.
PowReturn ==
  /\ pow.status = "run"
  /\ pow.i = pow.exponent
  /\ pow' = [pow EXCEPT !.status = "done"]
  /\ UNCHANGED <<mainvars, key_eval>>

NextPow == PowMul \/ PowReturn

SpecPow == InitPow /\ [][NextPow]_vars

\* The characters of the uv and op fields of the records whose keys are
\* compared: a letter and the separator itself.
FieldChars == {"A", ":"}

\* The non-empty strings of at most n of these characters.
Fields(n) == UNION {[1..m -> FieldChars] : m \in 1..n}

\* Two records, as the Parser yields them and as a line of the Unique
\* artifact splits.
InitKey ==
  /\ InitNoRun
  /\ pow = PowIdle
  /\ \E u1 \in Fields(MaxFieldLen), o1 \in Fields(MaxFieldLen),
        u2 \in Fields(MaxFieldLen), o2 \in Fields(MaxFieldLen) :
       key_eval = [status |-> "run", uv1 |-> u1, op1 |-> o1,
                   uv2 |-> u2, op2 |-> o2, key1 |-> <<>>, key2 |-> <<>>,
                   same_get |-> FALSE]

\* Lines 61-63: the key of each record as Sketch.put receives it.
KeyPut ==
  /\ key_eval.status = "run"
  /\ key_eval' = [key_eval EXCEPT
                    !.status = "put",
                    !.key1 = PutKey(key_eval.uv1, key_eval.op1),
                    !.key2 = PutKey(key_eval.uv2, key_eval.op2)]
  /\ UNCHANGED <<mainvars, pow>>

\* Lines 113-116: the key of each record as Sketch.get receives it.
KeyGet ==
  /\ key_eval.status = "put"
  /\ key_eval' = [key_eval EXCEPT
                    !.status = "got",
                    !.same_get =
                       /\ GetKey(key_eval.uv1, key_eval.op1) = key_eval.key1
                       /\ GetKey(key_eval.uv2, key_eval.op2) = key_eval.key2]
  /\ UNCHANGED <<mainvars, pow>>

NextKey == KeyPut \/ KeyGet

SpecKey == InitKey /\ [][NextKey]_vars


\* ------------------------------------------------------------------- claims
\* The first whitespace-separated field of a line (empty if it has none).
FirstField(text) ==
  LET f == split_whitespace(text) IN IF f = <<>> THEN <<>> ELSE f[1]

\* The distinct uv values of the lines of a Unique artifact.
UvValues(data) ==
  {FirstField(l) : l \in {x \in Range(Lines(data)) : split_whitespace(x) # <<>>}}

\* The number of records pulled from the stream with this uv and this op.
TrueCount(r, uv, op) ==
  Cardinality({i \in 1..Len(pulled[r]) :
                 pulled[r][i].uv = uv /\ pulled[r][i].op = op})

\* The run is in ReportEmit or past it.
InReportEmit(r) ==
  pc[r] \in {"scan", "print", "remove_unique", "remove_quads", "done"}

\* C1: a run that reaches Done has printed exactly one line per distinct uv
\* of the Unique artifact it read, in increasing uv order. Stated for the
\* runs in which sort exited with status zero and every read succeeded.
C1_OneLinePerUv ==
  \A r \in Runs :
    (pc[r] = "done" /\ sort_status[r] = "exit_zero" /\ ~read_failed[r]) =>
      /\ Len(stdout[r]) = Cardinality(UvValues(unique_seen[r]))
      /\ {FirstField(stdout[r][i]) : i \in 1..Len(stdout[r])}
           = UvValues(unique_seen[r])
      /\ \A i, j \in 1..Len(stdout[r]) :
           i < j => StrLess(FirstField(stdout[r][i]), FirstField(stdout[r][j]))

\* C2: a numeric result of Sketch.get is never below the number of puts of
\* the key, and every estimate ReportEmit obtained for (uv, op) is at least
\* the number of stream records with that uv and op. (A run that aborted on
\* a failed write has pulled one record it did not put; it makes no query.)
C2_NoUnderestimate ==
  \A r \in Runs :
    /\ pc[r] # "aborted" =>
         \A rec \in RecordPool :
           LET got == CmsGet(cms[r], PutKey(rec.uv, rec.op))
           IN got.present => got.pred >= TrueCount(r, rec.uv, rec.op)
    /\ \A i \in 1..Len(queried[r]) :
         queried[r][i].present =>
           queried[r][i].pred >= TrueCount(r, queried[r][i].uv, queried[r][i].op)

\* C2 witness: an estimate was obtained for a pair that occurs twice in the
\* stream.
C2_Witness ==
  \E i \in 1..Len(queried[1]) :
    /\ queried[1][i].present
    /\ TrueCount(1, queried[1][i].uv, queried[1][i].op) = 2

\* C3: every Sketch.get that ReportEmit issues for a line of the Unique
\* artifact returns a present estimate.
C3_NeverAbsent ==
  \A r \in Runs : \A i \in 1..Len(queried[r]) : queried[r][i].present

\* C4: when the run has reported success, neither the Buffer artifact nor
\* the Unique artifact exists.
C4_DoneMeansDeleted ==
  \A r \in Runs :
    pc[r] = "done" =>
      /\ ~fs[quads_path(r)].exists
      /\ ~fs[unique_quads_path(r)].exists

\* C4 witness: a run over a non-empty stream has reported success.
C4_Witness == pc[1] = "done" /\ Len(pulled[1]) > 0 /\ Len(stdout[1]) > 0

\* C5: after the Deduplicator has exited with a non-zero status the run never
\* enters ReportEmit: no Unique artifact is opened, no Sketch.get is issued
\* and no line is printed.
C5_NonZeroExitStops ==
  \A r \in Runs :
    sort_status[r] = "exit_nonzero" =>
      /\ ~InReportEmit(r)
      /\ queried[r] = <<>>
      /\ stdout[r] = <<>>

\* C6: after a read of the Unique artifact has failed the run prints nothing
\* more, does no cleanup and never reaches Done.
C6_ReadErrorAborts ==
  \A r \in Runs :
    read_failed[r] => pc[r] \notin {"remove_unique", "remove_quads", "done"}

\* C7: a scan step that reads a line with fewer than three fields ends the
\* run with the error "Missing fields" and prints nothing, and an aborted
\* run never prints again: the lines printed before are the only output.
C7_MissingFieldsAborts ==
  [][\A r \in Runs :
       /\ (/\ pc[r] = "scan"
           /\ seen'[r] # seen[r]
           /\ Len(split_whitespace(
                    read_line(fs[unique_quads_path(r)].data, seen[r]))) < 3)
          => /\ pc'[r] = "aborted"
             /\ err'[r] = "missing_fields"
             /\ stdout'[r] = stdout[r]
       /\ pc[r] = "aborted" => pc'[r] = "aborted" /\ stdout'[r] = stdout[r]]_vars

\* C7 witness: the run ended on a line with fewer than three fields while a
\* group was being built and after an earlier group had been printed.
C7_Witness ==
  /\ pc[1] = "aborted"
  /\ err[1] = "missing_fields"
  /\ Len(split_whitespace(line[1])) < 3
  /\ output[1] # <<>>
  /\ Len(stdout[1]) = 1

\* The run has finished ReportEmit without a failed read.
Emitted(r) ==
  pc[r] \in {"remove_unique", "remove_quads", "done"} /\ ~read_failed[r]

C9_NoSharedFile ==
  \A p \in AllPaths : \A r1, r2 \in Runs :
    (r1 # r2 /\ r1 \in touched[p].writers)
      => r2 \notin (touched[p].readers \cup touched[p].writers)

\* C9 as amended: the only file that one run writes and the other reads or
\* writes is the run summary, and only when both runs were given the same -o
\* directory; the Buffer and Unique artifacts of a run are touched by that
\* run alone.
C9_OnlySummaryShared ==
  \A p \in AllPaths : \A r1, r2 \in Runs :
    (/\ r1 # r2
     /\ r1 \in touched[p].writers
     /\ r2 \in (touched[p].readers \cup touched[p].writers))
    => /\ cli[r1].out = cli[r2].out
       /\ p = stats_path(cli[r1].out)

\* C9 witness: two runs given the same -o directory have both run to the end
\* over non-empty streams, each having written and read its own artifacts.
C9_Witness ==
  /\ pc[1] = "done" /\ pc[2] = "done"
  /\ pulled[1] # <<>> /\ pulled[2] # <<>>
  /\ cli[1].out = cli[2].out
  /\ touched[stats_path(cli[1].out)].writers = Runs
  /\ \A r \in Runs :
       /\ touched[quads_path(r)].writers = {r}
       /\ touched[unique_quads_path(r)].readers = {r}

\* C10: once StreamIngest has completed and the summary is written, the
\* run-summary artifact is exactly one line that reports the number of
\* records pulled, k, epsilon and floor(epsilon * N).
C10_SummaryIsOneLine ==
  \A r \in Runs :
    pc[r] = "sort" =>
      LET data == fs[stats_path(cli[r].out)].data
          n == Len(pulled[r])
      IN /\ Len(Lines(data)) = 1
         /\ data = SummaryLine(n, cli[r].k, cli[r].exponent,
                               n \div Pow10(cli[r].exponent))

\* C11: for every exponent the power 10^exponent is returned, and the u32
\* returned is the number 10^exponent (so it is not zero).
C11_PowIsExact ==
  /\ pow.status # "panic"
  /\ pow.status = "done" => BigOfU32(pow.acc) = pow.exact

\* The records as the Buffer artifact holds them: one line each, in order.
RECURSIVE BufferOf(_)
BufferOf(recs) ==
  IF recs = <<>> THEN <<>> ELSE BufferLine(Head(recs)) \o BufferOf(Tail(recs))

\* The sum of the counters of one row of the Sketch from column col on.
RECURSIVE RowSum(_, _)
RowSum(row, col) ==
  IF col \notin DOMAIN row THEN 0 ELSE row[col] + RowSum(row, col + 1)

\* The number of puts the Sketch has received: each put adds one to one
\* counter of every row.
Puts(sk) == RowSum(sk.table[1], 0)

\* C12: when the Deduplicator is about to be invoked the Buffer artifact is
\* exactly the lines "uv c op" of the records pulled, in order, and the
\* Sketch has received one put per record pulled; also when a file of that
\* name existed before the run.
C12_BufferIsTheStream ==
  \A r \in Runs :
    pc[r] = "sort" =>
      /\ fs[quads_path(r)].data = BufferOf(pulled[r])
      /\ Len(Lines(fs[quads_path(r)].data)) = Len(pulled[r])
      /\ Puts(cms[r]) = Len(pulled[r])

\* The phase of a position of main, numbered in the order Init, StreamIngest,
\* Uniquify, ReportEmit, Cleanup, Done; Aborted is apart.
PhaseOf(p) ==
  CASE p \in {"off", "open_buffer"} -> 0
    [] p \in {"ingest", "summary"} -> 1
    [] p = "sort" -> 2
    [] p \in {"open_seen", "scan", "print"} -> 3
    [] p \in {"remove_unique", "remove_quads"} -> 4
    [] p = "done" -> 5
    [] p = "aborted" -> 6

\* C13: a step of a run stays in its phase, enters the next one or aborts,
\* and Done and Aborted are left by no step; a Sketch.get is issued only
\* when the stream is exhausted and the Deduplicator has returned, and no
\* put follows a get; the Deduplicator is invoked once, when the Parser has
\* signalled end of stream and the summary is written, and every run past
\* Uniquify has invoked it; a file is deleted only in Cleanup, after the
\* final group was printed.
C13_PhaseOrder ==
  /\ [][\A r \in Runs :
          /\ pc'[r] # pc[r] =>
               /\ pc[r] \notin {"done", "aborted"}
               /\ \/ pc'[r] = "aborted"
                  \/ PhaseOf(pc'[r]) \in {PhaseOf(pc[r]), PhaseOf(pc[r]) + 1}
          /\ queried'[r] # queried[r] =>
               /\ sort_status[r] \in {"exit_zero", "exit_nonzero"}
               /\ stdin[r].recs = <<>>
               /\ cms'[r] = cms[r]
          /\ cms'[r] # cms[r] => queried[r] = <<>> /\ sort_status[r] = "not_run"
          /\ sort_status'[r] # sort_status[r] =>
               /\ sort_status[r] = "not_run"
               /\ parse_cms(stdin[r]).kind = "none"
               /\ r \in touched[stats_path(cli[r].out)].writers
          /\ \A p \in {quads_path(r), unique_quads_path(r)} :
               (fs[p].exists /\ ~fs'[p].exists) =>
                 /\ PhaseOf(pc[r]) = 4
                 /\ Len(stdout[r]) >= 1
                 /\ stdout[r][Len(stdout[r])] = output[r]]_vars
  /\ [](\A r \in Runs :
          PhaseOf(pc[r]) \in 3..5 => sort_status[r] \in {"exit_zero", "exit_nonzero"})

\* C13 witness: a run over two records has gone through every phase: the
\* Deduplicator ran, estimates were obtained, lines were printed and the run
\* reported success.
C13_Witness ==
  /\ pc[1] = "done"
  /\ Len(pulled[1]) = 2
  /\ sort_status[1] = "exit_zero"
  /\ Len(queried[1]) >= 2
  /\ Len(stdout[1]) >= 1

\* A string cut at every occurrence of the byte sep.
RECURSIVE SplitOn(_, _, _)
SplitOn(s, sep, cur) ==
  IF s = <<>> THEN <<cur>>
  ELSE IF Head(s) = sep THEN <<cur>> \o SplitOn(Tail(s), sep, <<>>)
  ELSE SplitOn(Tail(s), sep, Append(cur, Head(s)))

\* The parts of a printed line: the header, then one part per annotation.
Segments(text) == SplitOn(text, TAB, <<>>)

\* What follows the first ':' of a string (empty if there is none).
RECURSIVE AfterColon(_)
AfterColon(s) ==
  IF s = <<>> THEN <<>>
  ELSE IF Head(s) = ":" THEN Tail(s)
  ELSE AfterColon(Tail(s))

\* The op label of the annotation "k:op pred".
AnnotationOp(seg) == AfterColon(FirstField(seg))

\* The op labels of the annotations of a printed line, in order.
AnnotationOps(text) ==
  LET segs == Segments(text)
  IN [i \in 1..(Len(segs) - 1) |-> AnnotationOp(segs[i + 1])]

\* C14: in every printed line no op label appears in two annotations.
C14_OneAnnotationPerOp ==
  \A r \in Runs : \A i \in 1..Len(stdout[r]) :
    LET ops == AnnotationOps(stdout[r][i])
    IN \A a, b \in 1..Len(ops) : a # b => ops[a] # ops[b]

\* A record as a line of the Unique artifact.
RowText(rec) == rec.uv \o <<SP>> \o Digits(rec.c) \o <<SP>> \o rec.op

\* The run pulled the pair (uv, op) with two different c values.
TwoCValues(r, uv, op) ==
  \E i, j \in 1..Len(pulled[r]) :
    /\ pulled[r][i].uv = uv /\ pulled[r][j].uv = uv
    /\ pulled[r][i].op = op /\ pulled[r][j].op = op
    /\ pulled[r][i].c # pulled[r][j].c

\* The rows of (uv, op) among the records pulled.
RowsOf(r, uv, op) ==
  {RowText(pulled[r][i]) : i \in {n \in 1..Len(pulled[r]) :
                                    pulled[r][n].uv = uv /\ pulled[r][n].op = op}}

\* The run has finished ReportEmit over what the Deduplicator wrote.
CleanEmit(r) == Emitted(r) /\ sort_status[r] = "exit_zero"

\* The places of the printed lines that hold a header "uv c" of this uv.
HeaderFragments(r, uv) ==
  {<<i, j>> \in (1..Len(stdout[r])) \X (1..(MaxRecords + 2)) :
     /\ j <= Len(Segments(stdout[r][i]))
     /\ Len(split_whitespace(Segments(stdout[r][i])[j])) = 2
     /\ split_whitespace(Segments(stdout[r][i])[j])[1] = uv}

\* The places of the printed lines of this uv that hold an annotation of op.
AnnotationsOf(r, uv, op) ==
  {<<i, a>> \in (1..Len(stdout[r])) \X (1..(MaxRecords + 2)) :
     /\ FirstField(stdout[r][i]) = uv
     /\ a <= Len(AnnotationOps(stdout[r][i]))
     /\ AnnotationOps(stdout[r][i])[a] = op}

\* C15: when the stream holds one (uv, op) with two different c values, both
\* rows are in the Unique artifact and the printed output holds two headers
\* "uv c" for that uv.
C15_TwoHeaderFragments ==
  \A r \in Runs : \A rec \in RecordPool :
    (CleanEmit(r) /\ TwoCValues(r, rec.uv, rec.op)) =>
      /\ RowsOf(r, rec.uv, rec.op) \subseteq Range(Lines(unique_seen[r]))
      /\ Cardinality(HeaderFragments(r, rec.uv)) = 2

\* C15 as amended: both rows are in the Unique artifact, and the printed
\* output holds one header for that uv, followed by one annotation of op for
\* each of the rows.
C15_OneHeaderTwoAnnotations ==
  \A r \in Runs : \A rec \in RecordPool :
    (CleanEmit(r) /\ TwoCValues(r, rec.uv, rec.op)) =>
      /\ RowsOf(r, rec.uv, rec.op) \subseteq Range(Lines(unique_seen[r]))
      /\ Cardinality(RowsOf(r, rec.uv, rec.op)) >= 2
      /\ Cardinality(HeaderFragments(r, rec.uv)) = 1
      /\ Cardinality(AnnotationsOf(r, rec.uv, rec.op))
           = Cardinality(RowsOf(r, rec.uv, rec.op))

\* C15 witness: a run that pulled "A 2 x" and "A 10 x" has finished
\* ReportEmit over the Deduplicator's output and printed its line.
C15_Witness ==
  /\ CleanEmit(1)
  /\ \E rec \in RecordPool : TwoCValues(1, rec.uv, rec.op)
  /\ Len(stdout[1]) = 1
  /\ Len(queried[1]) = 2

\* The rows of a Unique artifact whose first field is uv, in file order.
RowsWithUv(data, uv) ==
  SelectSeq(Lines(data), LAMBDA l : FirstField(l) = uv)

\* C16: every group line, printed or being built, starts with "uv c" where c
\* is the second field of the first row of the Unique artifact that has this
\* uv; the rows that follow with the same uv leave the header as it is.
C16_HeaderIsFirstC ==
  \A r \in Runs :
    \A text \in (Range(stdout[r]) \cup {output[r]}) \ {<<>>} :
      LET uv == FirstField(text)
          rows == RowsWithUv(unique_seen[r], uv)
      IN /\ rows # <<>>
         /\ Len(split_whitespace(rows[1])) = 3
         /\ Segments(text)[1] = Header(uv, split_whitespace(rows[1])[2])

\* C16 witness: a line was printed for a uv whose rows in the Unique artifact
\* carry two different c values, all of them scanned.
C16_Witness ==
  /\ pc[1] = "done"
  /\ \E text \in Range(stdout[1]) :
       LET rows == RowsWithUv(unique_seen[1], FirstField(text))
       IN /\ Len(rows) = 2
          /\ split_whitespace(rows[1])[2] # split_whitespace(rows[2])[2]
          /\ Len(AnnotationOps(text)) = 2

\* The ephemeral artifacts of a run.
Ephemeral(r) == {quads_path(r), unique_quads_path(r)}

\* C17: the step that aborts a run deletes no file; a run that aborts
\* anywhere but on the deletion of the Buffer artifact leaves every ephemeral
\* artifact it wrote in place; and in every aborted state of a run that
\* created or opened the Buffer artifact, the Buffer artifact exists.
C17_AbortLeavesBuffer ==
  /\ [][\A r \in Runs :
          (pc[r] # "aborted" /\ pc'[r] = "aborted") =>
            /\ \A p \in AllPaths : fs[p].exists => fs'[p].exists
            /\ pc[r] # "remove_quads" =>
                 \A p \in Ephemeral(r) :
                   r \in touched[p].writers => fs'[p].exists]_vars
  /\ [](\A r \in Runs :
          (pc[r] = "aborted" /\ r \in touched[quads_path(r)].writers)
            => fs[quads_path(r)].exists)

\* C17 witness: a run that wrote a record to the Buffer artifact, had it
\* sorted and printed its output has aborted on the deletion of the Unique
\* artifact; both artifacts are there.
C17_Witness ==
  /\ pc[1] = "aborted"
  /\ err[1] = "io"
  /\ pulled[1] # <<>>
  /\ sort_status[1] = "exit_zero"
  /\ Len(stdout[1]) >= 1
  /\ fs[unique_quads_path(1)].exists
  /\ fs[quads_path(1)].exists

\* C18: a scan step that reads a line goes on only when the line splits
\* into exactly three fields, and ends the run with the error "Missing
\* fields" for any other number of fields (none, fewer, more); the scan ends
\* and the last group is printed only when read_line returned zero bytes.
C18_ExactlyThreeFields ==
  [][\A r \in Runs :
       LET bytes == read_line(fs[unique_quads_path(r)].data, seen[r])
           n == Len(split_whitespace(bytes))
       IN pc[r] = "scan" =>
            /\ (seen'[r] # seen[r] /\ n # 3) =>
                 pc'[r] = "aborted" /\ err'[r] = "missing_fields"
            /\ (seen'[r] # seen[r] /\ n = 3) => pc'[r] = "scan"
            /\ pc'[r] = "print" => Len(bytes) = 0]_vars

\* The two records whose keys were computed differ in uv or in op.
DistinctPairs ==
  key_eval.uv1 # key_eval.uv2 \/ key_eval.op1 # key_eval.op2

KeysComputed == key_eval.status \in {"put", "got"}

\* C19: two records that differ in uv or in op have different keys, whatever
\* non-whitespace characters, ':' among them, uv and op are made of.
C19_KeyInjective ==
  (KeysComputed /\ DistinctPairs) => key_eval.key1 # key_eval.key2

\* C19 as amended: two records that differ in uv or in op have different
\* keys when neither uv contains ':' (op may); and get is given the key put
\* was given.
C19_KeyInjectiveNoColonInUv ==
  /\ (/\ KeysComputed /\ DistinctPairs
      /\ ":" \notin Range(key_eval.uv1)
      /\ ":" \notin Range(key_eval.uv2))
     => key_eval.key1 # key_eval.key2
  /\ key_eval.status = "got" => key_eval.same_get

\* C19 witness: the keys of two records were computed whose uv are
\* colon-free and different, one a prefix of the other, and whose op both
\* contain ':'.
C19_Witness ==
  /\ key_eval.status = "got"
  /\ ":" \notin Range(key_eval.uv1)
  /\ ":" \notin Range(key_eval.uv2)
  /\ Len(key_eval.uv1) < Len(key_eval.uv2)
  /\ ":" \in Range(key_eval.op1)
  /\ ":" \in Range(key_eval.op2)
  /\ key_eval.key1 # key_eval.key2

====
